---------------------------- MODULE Spec2Model ----------------------------
(***************************************************************************)
(* A model of the OpenCL demos of eriklupander/opencl-demo (internal/app): *)
(* Benchmark, BatchedSquare, SquareLocalSize, MultiDim, Vectors, Structs.  *)
(* Every demo is one Go function that walks the same path: select a        *)
(* device, create context / queue / program / kernel, allocate device      *)
(* buffers, upload, bind the kernel arguments, enqueue one or many         *)
(* NDRange dispatches, drain the queue and download.  The model follows    *)
(* each function statement block by statement block (pc) and models the    *)
(* device side (the OpenCL runtime and the kernels' source text) next to   *)
(* it: buffers with their access mode and contents, the checks the runtime *)
(* makes on an enqueue, and what each kernel reads and writes.             *)
(***************************************************************************)
EXTENDS Integers, Sequences, FiniteSets, TLC

-----------------------------------------------------------------------------
(* Bounds of the model (not program constants).                            *)

\* How many dispatches of one run may take longer than one microsecond.
MaxSlow == 1

\* The longest a dispatch may take from enqueue to drain, in microseconds.
MaxDur == 2

\* The pure padding arithmetic is also checked for every problem size in
\* 1..MaxProblemSize and every multiple in 1..MaxMultiple.
MaxProblemSize == 24

MaxMultiple == 9

\* The device indexes a run may be started with are -1 .. MaxDeviceIndex.
MaxDeviceIndex == 2

\* The Vectors guard is also checked for every global id in 0 .. MaxGlobalId.
MaxGlobalId == 300

\* The index maps of the kernels are also checked on every geometry with
\* sizes in 1 .. MaxGeometry.
MaxGeometry == 4

\* ... and with at most MaxItems work-items.
MaxItems == 16

-----------------------------------------------------------------------------
(* Program constants.                                                      *)

\* benchmark.go:127 and part_002:317, iterations := int64(16)
Iterations == 16

\* benchmark.go:62, elems := 1024 (the 2-D problem is elems x elems)
BenchElems == 1024

\* part_002:263, elemCount := 16777216
BatchedElemCount == 16777216

\* part_001:64, elemCount := 64
SquareLocalElemCount == 64

\* part_001:111, global size []int{16}
SquareLocalGlobal == 16

\* part_003:67, elems := 4
MultiDimElems == 4

\* part_002:36, 64 vectors (and, part_002:44, 64 matrices)
VectorCount == 64

\* part_000:43, wgSize := 256 structs
StructCount == 256

\* A candidate list that is not made of powers of two only.
localSizesWithThree == <<1, 2, 3, 4, 8, 16, 32, 64, 128, 256, 512, 1024>>

\* benchmark.go:123 and part_002:313
localSizes == <<1, 2, 4, 8, 16, 32, 64, 128, 256, 512, 1024>>

Demos == {"Benchmark", "BatchedSquare", "SquareLocalSize", "MultiDim",
          "Vectors", "Structs"}

\* The demos with a loop over candidate local sizes.
LoopDemos == {"Benchmark", "BatchedSquare"}

\* The demos with the auto-padding step; they check every error and end in
\* logrus.Fatalf, the others panic on a failed call (deferred releases run).
PadDemos == {"Vectors", "Structs"}

-----------------------------------------------------------------------------
(* The device capability profiles the enumerator may report.  maxWG is     *)
(* CL_DEVICE_MAX_WORK_GROUP_SIZE, wi is CL_DEVICE_MAX_WORK_ITEM_SIZES,     *)
(* kernelWG is CL_KERNEL_WORK_GROUP_SIZE of the compiled kernel, prefMult  *)
(* is CL_KERNEL_PREFERRED_WORK_GROUP_SIZE_MULTIPLE, fp64 says whether the  *)
(* extension string holds cl_khr_fp64.                                     *)

Profile(g, w, k, p, f) ==
    [maxWG |-> g, wi |-> w, kernelWG |-> k, prefMult |-> p, fp64 |-> f]

DeviceProfiles ==
    { Profile(1024, <<1024, 1, 1>>, 1024, 1, TRUE),          \* CPU of the README
      Profile(512, <<512, 512, 512>>, 512, 32, FALSE),       \* Iris Pro
      Profile(1024, <<1024, 1024, 64>>, 1024, 32, TRUE),     \* GeForce GT 750M
      Profile(1024, <<1024, 1024, 64>>, 768, 32, TRUE),      \* kernel limited by registers
      Profile(256, <<1024, 1024, 1024>>, 256, 64, TRUE),     \* items wider than the group
      Profile(256, <<128, 128, 128>>, 256, 32, TRUE),        \* group wider than dimension 0
      Profile(256, <<256, 256, 256>>, 96, 32, TRUE),         \* kernel size not a power of 2
      Profile(16, <<16, 2, 1>>, 16, 8, FALSE),
      Profile(4, <<2, 2, 2>>, 4, 1, TRUE),                   \* a small device of that shape
      Profile(1, <<1, 1, 1>>, 1, 1, TRUE) }

\* What platforms[0].GetDevices may enumerate: no device, one device of any
\* profile, or the CPU and a GPU.
Platforms ==
    {<<>>} \cup {<<p>> : p \in DeviceProfiles}
           \cup {<<Profile(1024, <<1024, 1, 1>>, 1024, 1, TRUE),
                   Profile(256, <<256, 256, 256>>, 96, 32, TRUE)>>}

\* The values of the -device flag.
DeviceIndexes == -1 .. MaxDeviceIndex

\* dev before a device is selected.
NoDevice == Profile(0, <<0, 0, 0>>, 0, 0, FALSE)

-----------------------------------------------------------------------------
VARIABLES
    demo,       \* which demo main.go runs (-op)
    platform,   \* the devices of platforms[0], as the OpenCL runtime knows them
    requested,  \* the device index the demo was called with (-device)
    devices,    \* the demo's slice devices
    deviceIndex,\* the demo's variable deviceIndex
    handles,    \* the OpenCL objects the demo holds: name -> "live" or "nil"
    releases,   \* how often Release() was called on each of them
    deferred,   \* the stack of deferred Release() calls
    failed,     \* the first call of the construction that returned an error
    items,      \* inside one dispatch: the work-items that have run
    writes,     \* inside one dispatch: output index -> number of stores to it
    dev,        \* the capability profile of devices[deviceIndex]
    pc,         \* the position in the demo function
    bufs,       \* device buffers: name -> [mode, size, data]
    kargs,      \* the kernel's bound arguments (kernel.SetArgs)
    idx,        \* benchmark loop: index into localSizes of the current candidate
    it,         \* benchmark loop: the repetition counter
    sum,        \* benchmark loop: the duration accumulator (microseconds)
    st,         \* the start instant last taken with time.Now()
    now,        \* the wall clock (microseconds)
    rows,       \* the result rows printed so far: <<[localSize, mean]>>
    local,      \* Vectors/Structs: kernel.WorkGroupSize(device)
    size,       \* Vectors/Structs: kernel.PreferredWorkGroupSizeMultiple(nil)
    global,     \* Vectors/Structs: the padded global of step 6.1
    enq,        \* the geometry of the last EnqueueNDRangeKernel call (its arguments)
    pending,    \* TRUE while an accepted dispatch has not been drained
    lastRun,    \* the geometry the device ran the last drained dispatch with
    results,    \* the host slice filled by EnqueueReadBuffer
    fault,      \* TRUE once a kernel accessed an index outside a buffer
    spanSum,    \* sum of the enqueue-to-drain spans of the candidate's repetitions
    slowLeft    \* how many more dispatches may be slow

hostEnv == <<platform, requested, devices, deviceIndex>>

resources == <<handles, releases, deferred, failed>>

dispatchVars == <<items, writes>>

vars == <<demo, dispatchVars, hostEnv, resources, dev, pc, bufs, kargs, idx, it, sum, st, now, rows, local, size,
          global, enq, pending, lastRun, results, fault, spanSum, slowLeft>>

None == [g |-> <<>>, l |-> <<>>]

Init ==
    /\ demo \in Demos
    /\ platform \in Platforms
    /\ requested \in DeviceIndexes
    /\ devices = <<>>
    /\ deviceIndex = requested
    /\ handles = [h \in {} |-> "nil"]
    /\ releases = [h \in {} |-> 0]
    /\ deferred = <<>>
    /\ failed = "none"
    /\ items = {}
    /\ writes = [k \in {} |-> 0]
    /\ dev = NoDevice
    /\ pc = "start"
    /\ bufs = <<>>
    /\ kargs = <<>>
    /\ idx = 1
    /\ it = 0
    /\ sum = 0
    /\ st = 0
    /\ now = 0
    /\ rows = <<>>
    /\ local = 0
    /\ size = 0
    /\ global = 0
    /\ enq = None
    /\ pending = FALSE
    /\ lastRun = None
    /\ results = <<>>
    /\ fault = FALSE
    /\ spanSum = 0
    /\ slowLeft = MaxSlow

-----------------------------------------------------------------------------
(* Host data and device buffers.                                           *)

\* The indices at which the model follows the two big problems: the first
\* cells, the cells around a work-group boundary, the last cell, and cells
\* past the end of the buffer (where only an access, never a value, counts).
BenchProbes ==
    {0, 1, BenchElems - 1, BenchElems, BenchElems * BenchElems - 1,
     BenchElems * BenchElems, BenchElems * BenchElems + BenchElems - 1}

BatchedProbes ==
    {0, 1, 1023, 1024, BatchedElemCount - 1, BatchedElemCount,
     BatchedElemCount + 1023}

\* The indices a kernel of the demo can touch, as far as the model follows them.
ProbeIdx(d) ==
    CASE d = "Benchmark" -> BenchProbes
      [] d = "BatchedSquare" -> BatchedProbes
      [] d = "SquareLocalSize" -> 0 .. (SquareLocalGlobal * SquareLocalGlobal - 1)
      [] d = "MultiDim" -> 0 .. (MultiDimElems * MultiDimElems - 1)
      [] d = "Vectors" -> 0 .. (16 * VectorCount - 1)
      [] d = "Structs" -> 0 .. (StructCount - 1)

\* len(numbers), len(vectors1), len(input1): the problem size of each demo.
ElemCount(d) ==
    CASE d = "Benchmark" -> BenchElems * BenchElems
      [] d = "BatchedSquare" -> BatchedElemCount
      [] d = "SquareLocalSize" -> SquareLocalElemCount
      [] d = "MultiDim" -> MultiDimElems * MultiDimElems
      [] d = "Vectors" -> 4 * VectorCount
      [] d = "Structs" -> StructCount

\* The CreateEmptyBuffer calls of each demo, in order: name, access mode and
\* size in elements.
BufferPlan(d) ==
    CASE d \in {"Benchmark", "BatchedSquare", "MultiDim"} ->
           << [name |-> "input", mode |-> "ReadOnly", size |-> ElemCount(d)],
              [name |-> "output", mode |-> "ReadOnly", size |-> ElemCount(d)] >>
      [] d = "SquareLocalSize" ->
           << [name |-> "input", mode |-> "ReadOnly", size |-> ElemCount(d)],
              [name |-> "output", mode |-> "WriteOnly", size |-> ElemCount(d)] >>
      [] d = "Vectors" ->
           << [name |-> "inputVector1", mode |-> "ReadOnly", size |-> 4 * VectorCount],
              [name |-> "inputMatrix2", mode |-> "ReadOnly", size |-> 16 * VectorCount],
              [name |-> "output", mode |-> "ReadOnly", size |-> 4 * VectorCount] >>
      [] d = "Structs" ->
           << [name |-> "param1", mode |-> "ReadOnly", size |-> StructCount],
              [name |-> "output", mode |-> "WriteOnly", size |-> StructCount] >>

\* The cells of a buffer of n elements whose contents the model follows.
Cells(d, n) == {k \in ProbeIdx(d) : k < n}

\* The host slices: numbers[i] = i, vectors1[4i+j] = i+j, matrices[16i+j] = j,
\* input1[i] = MyStruct{Origin{1+i,..}, Direction{5+i,..}, Extra{999,..}}.
HostData(d, name) ==
    CASE name = "input" -> [k \in Cells(d, ElemCount(d)) |-> k]
      [] name = "inputVector1" ->
           [k \in Cells(d, 4 * VectorCount) |-> (k \div 4) + (k % 4)]
      [] name = "inputMatrix2" ->
           [k \in Cells(d, 16 * VectorCount) |-> k % 16]
      [] name = "param1" ->
           [k \in Cells(d, StructCount) |->
               [origin |-> <<1 + k, 2 * k, 3 * k, 4 * k>>,
                direction |-> <<5 + k, 6 * k, 7 * k, 8 * k>>,
                extra |-> <<999, 888, 777, 666>>]]

\* The blocking EnqueueWriteBuffer calls of each demo, in order.
UploadPlan(d) ==
    CASE d = "Vectors" -> <<"inputVector1", "inputMatrix2">>
      [] d = "Structs" -> <<"param1">>
      [] OTHER -> <<"input">>

\* kernel.SetArgs(...): the arguments in the order of the kernel's parameters.
ArgPlan(d) ==
    CASE d = "Vectors" -> <<"inputVector1", "inputMatrix2", "output", 4 * VectorCount>>
      [] d = "Structs" -> <<"param1", "output">>
      [] OTHER -> <<"input", "output">>

\* The index in bufs of the buffer called name (0 when there is none).
BufIndex(name) ==
    IF \E i \in 1..Len(bufs) : bufs[i].name = name
    THEN CHOOSE i \in 1..Len(bufs) : bufs[i].name = name
    ELSE 0

Buf(name) == bufs[BufIndex(name)]

-----------------------------------------------------------------------------
(* The kernels.  A run r is the geometry a dispatch executes with:         *)
(* r.g the global sizes, r.l the local sizes (those of the call, or the    *)
(* ones the device chose when the call passed nil).  A buffer's data is    *)
(* the map of its initialised cells; a cell outside DOMAIN data holds      *)
(* whatever the device memory held.                                        *)

\* An index that forgets the row stride.
GridIndexAdds(row, col, colCount) == row + col

\* benchmarkSrc and squareRootSrc: int index = row * colCount + col
GridIndex(row, col, colCount) == row * colCount + col

\* batchedSquareSrc: int localIndex = i*localSize+n
BatchedIndex(i, n, localSize) == i * localSize + n

\* vectorsSrc: output[vOffset + row] with vOffset = i * 4
VectorsIndex(i, row) == i * 4 + row

\* squareLocalSrc: work-item i squares the cells i*localSize + c, c < localSize.
SquareLocalTouched(r) ==
    LET localSize == r.l[1]
    IN  {i * localSize + c : i \in 0 .. (r.g[1] - 1), c \in 0 .. (localSize - 1)}

\* batchedSquareSrc: work-item i squares the cells i*localSize + n, n < localSize.
\* Cell k is touched when some (i, n) has i*localSize + n = k; as n < localSize
\* that pair can only be (k div localSize, k mod localSize).
BatchedTouched(r) ==
    LET localSize == r.l[1]
    IN  {k \in BatchedProbes :
            LET i == k \div localSize
                n == k % localSize
            IN  /\ i \in 0 .. (r.g[1] - 1)
                /\ n \in 0 .. (localSize - 1)
                /\ BatchedIndex(i, n, localSize) = k}

\* benchmarkSrc: work-item (col, row) handles index row * colCount + col with
\* colCount = get_global_size(0); as col < colCount the pair that handles k
\* can only be (k mod colCount, k div colCount).
BenchmarkTouched(r) ==
    LET colCount == r.g[1]
    IN  {k \in BenchProbes :
            LET row == k \div colCount
                col == k % colCount
            IN  /\ row \in 0 .. (r.g[2] - 1)
                /\ col \in 0 .. (r.g[1] - 1)
                /\ GridIndex(row, col, colCount) = k}

\* squareRootSrc: the same index arithmetic, every work-item enumerated.
MultiDimTouched(r) ==
    LET colCount == r.g[1]
    IN  {GridIndex(row, col, colCount) :
            row \in 0 .. (r.g[2] - 1), col \in 0 .. (r.g[1] - 1)}

\* vectorsSrc: the work-items that pass the guard i < count.
VectorsItems(r) == {i \in 0 .. (r.g[1] - 1) : i < kargs[4]}

VectorsOutTouched(r) ==
    {VectorsIndex(i, row) : i \in VectorsItems(r), row \in 0 .. 3}

VectorsIn1Touched(r) == {i * 4 + k : i \in VectorsItems(r), k \in 0 .. 3}

VectorsIn2Touched(r) ==
    {i * 16 + (row * 4) + k : i \in VectorsItems(r), row \in 0 .. 3, k \in 0 .. 3}

\* printRayStructSrc: work-item i reads input1[i] and writes output[i].
StructsTouched(r) == 0 .. (r.g[1] - 1)

\* The output indices the kernel of demo d writes in run r.
OutTouched(d, r) ==
    CASE d = "Benchmark" -> BenchmarkTouched(r)
      [] d = "BatchedSquare" -> BatchedTouched(r)
      [] d = "SquareLocalSize" -> SquareLocalTouched(r)
      [] d = "MultiDim" -> MultiDimTouched(r)
      [] d = "Vectors" -> VectorsOutTouched(r)
      [] d = "Structs" -> StructsTouched(r)

\* TRUE when the kernel of demo d, in run r, reads or writes outside one of
\* the buffers bound to it.
OutOfBounds(d, r) ==
    IF d = "Vectors"
    THEN \/ \E k \in VectorsIn1Touched(r) : k >= Buf(kargs[1]).size
         \/ \E k \in VectorsIn2Touched(r) : k >= Buf(kargs[2]).size
         \/ \E k \in VectorsOutTouched(r) : k >= Buf(kargs[3]).size
    ELSE \E k \in OutTouched(d, r) :
            k >= Buf(kargs[1]).size \/ k >= Buf(kargs[2]).size

\* input[index] * input[index] on 32-bit ints, kept as a term: the squares
\* of the big problem do not fit the model's integers.
Sq(v) == <<"sq", v>>

\* sqrt(input[index]) on floats, kept as a term.
Sqrt(v) == <<"sqrt", v>>

\* Row row of the product of matrix i and vector i, as vectorsSrc adds it up.
VectorsValue(in1, in2, i, row) ==
    LET vOffset == i * 4
        mOffset == i * 16
        a == in2[mOffset + (row * 4) + 0] * in1[vOffset]
        b == in2[mOffset + (row * 4) + 1] * in1[vOffset + 1]
        c == in2[mOffset + (row * 4) + 2] * in1[vOffset + 2]
        e == in2[mOffset + (row * 4) + 3] * in1[vOffset + 3]
    IN  a + b + c + e

\* The value the kernel of demo d stores at output index k.
OutValue(d, k) ==
    CASE d = "Benchmark" -> Sqrt(Buf(kargs[1]).data[k])
      [] d = "MultiDim" -> Sqrt(Buf(kargs[1]).data[k])
      [] d = "BatchedSquare" -> Sq(Buf(kargs[1]).data[k])
      [] d = "SquareLocalSize" -> Buf(kargs[1]).data[k] * Buf(kargs[1]).data[k]
      [] d = "Vectors" ->
           VectorsValue(Buf(kargs[1]).data, Buf(kargs[2]).data, k \div 4, k % 4)
      [] d = "Structs" -> 1

\* The position in kargs of the buffer the kernel of demo d writes.
OutArg(d) == IF d = "Vectors" THEN 3 ELSE 2

\* A kernel that, besides storing its results, clears the cells of its first
\* parameter as it consumes them.
KernelEffectClearsInput(d, r) ==
    LET o == BufIndex(kargs[OutArg(d)])
        p == BufIndex(kargs[1])
        old == bufs[o].data
        w == {k \in OutTouched(d, r) : k < bufs[o].size}
    IN  [bufs EXCEPT ![o].data =
            [k \in (DOMAIN old) \cup w |-> IF k \in w THEN OutValue(d, k) ELSE old[k]],
                     ![p].data =
            [k \in DOMAIN bufs[p].data |-> IF k \in w THEN 0 ELSE bufs[p].data[k]]]

\* The buffers after the kernel of demo d ran with geometry r and its stores
\* took effect: the touched cells of the output buffer hold the new values.
KernelEffect(d, r) ==
    LET o == BufIndex(kargs[OutArg(d)])
        old == bufs[o].data
        w == {k \in OutTouched(d, r) : k < bufs[o].size}
    IN  [bufs EXCEPT ![o].data =
            [k \in (DOMAIN old) \cup w |-> IF k \in w THEN OutValue(d, k) ELSE old[k]]]

-----------------------------------------------------------------------------
(* The OpenCL runtime's side of a dispatch.                                *)

Prod(l) == IF Len(l) = 1 THEN l[1] ELSE l[1] * l[2]

\* clEnqueueNDRangeKernel accepts a geometry with local sizes only if every
\* global size is a multiple of its local size (else CL_INVALID_WORK_GROUP_SIZE),
\* the work-group fits the device and the kernel (CL_INVALID_WORK_GROUP_SIZE)
\* and every local size fits its dimension (CL_INVALID_WORK_ITEM_SIZE).
EnqueueValid(geom) ==
    \/ geom.l = <<>>
    \/ /\ \A d \in 1 .. Len(geom.g) :
             /\ geom.g[d] % geom.l[d] = 0
             /\ geom.l[d] <= dev.wi[d]
       /\ Prod(geom.l) <= dev.maxWG
       /\ Prod(geom.l) <= dev.kernelWG

\* The geometries the device may run an accepted dispatch with: the one of
\* the call or, when the call passed nil as local size, any local size the
\* device can choose (a divisor of the global size within its limits).
PossibleRuns(geom) ==
    IF geom.l # <<>>
    THEN {geom}
    ELSE {[g |-> geom.g, l |-> <<L>>] :
            L \in {n \in 1 .. geom.g[1] :
                      /\ geom.g[1] % n = 0
                      /\ n <= dev.kernelWG
                      /\ n <= dev.wi[1]}}

\* Whether the stores of a kernel into a buffer of this access mode take
\* effect: a store into a CL_MEM_READ_ONLY buffer is undefined, the device
\* may perform it or drop it.
StoreOutcomes(mode) == IF mode = "ReadOnly" THEN {TRUE, FALSE} ELSE {TRUE}

\* How long a dispatch may take from enqueue to drain.
Durations == IF slowLeft > 0 THEN 1 .. MaxDur ELSE {1}

-----------------------------------------------------------------------------
(* The host code.                                                          *)

\* A slip in the padding: the remainder is added instead of its complement.
AutoPadAddsRemainder(n, m) ==
    LET d == n % m
    IN  IF d # 0 THEN n + d ELSE n

\* Steps 6.1 of Structs and Vectors: pad n up to a multiple of m.
AutoPad(n, m) ==
    LET d == n % m
    IN  IF d # 0 THEN n + (m - d) ELSE n

\* A slip in the check: the 1-D test of BatchedSquare used for the 2-D geometry.
BenchmarkSkipsOneDim(localSize) == localSize > dev.maxWG

\* benchmark.go:131, the candidates Benchmark skips.
BenchmarkSkips(localSize) ==
    \/ localSize * localSize > dev.maxWG
    \/ localSize > dev.wi[1]
    \/ localSize > dev.wi[2]

\* part_002:319, the candidates BatchedSquare skips.
BatchedSkips(lz) == lz > dev.maxWG

Skips(d, L) == IF d = "Benchmark" THEN BenchmarkSkips(L) ELSE BatchedSkips(L)

\* The global and local sizes each demo hands to EnqueueNDRangeKernel.
BenchmarkGeometry(localSize) ==
    [g |-> <<BenchElems, BenchElems>>, l |-> <<localSize, localSize>>]

BatchedGeometry(lz) == [g |-> <<BatchedElemCount \div lz>>, l |-> <<lz>>]

SquareLocalGeometry == [g |-> <<SquareLocalGlobal>>, l |-> <<>>]

MultiDimGeometry == [g |-> <<MultiDimElems, MultiDimElems>>, l |-> <<1, 1>>]

VectorsGeometry == [g |-> <<ElemCount("Vectors") \div 4>>, l |-> <<4>>]

StructsGeometry == [g |-> <<ElemCount("Structs")>>, l |-> <<>>]

EnqueueGeometry ==
    CASE demo = "Benchmark" -> BenchmarkGeometry(localSizes[idx])
      [] demo = "BatchedSquare" -> BatchedGeometry(localSizes[idx])
      [] demo = "SquareLocalSize" -> SquareLocalGeometry
      [] demo = "MultiDim" -> MultiDimGeometry
      [] demo = "Vectors" -> VectorsGeometry
      [] demo = "Structs" -> StructsGeometry

\* Where a failed call ends the demo: panic(...) or logrus.Fatalf(...).
ErrorPc(d) == IF d \in PadDemos THEN "fatal" ELSE "panicked"

EmptyData == [k \in {} |-> 0]

\* A call of the OpenCL API returns its result (TRUE) or an error (FALSE).
ApiOutcomes == {TRUE, FALSE}

\* A call on a handle that is nil because its creation failed and the error
\* was discarded: the binding dereferences nil and panics, or the runtime
\* rejects the null handle and the call returns an error.
NilCallOutcomes == {"panics", "fails"}

\* A selection that pulls every index into the slice.
ClampIndexBothEnds(d, i) ==
    IF i < 0 THEN 0 ELSE IF i >= Len(devices) THEN Len(devices) - 1 ELSE i

\* Structs and Vectors replace a negative index by 0 (part_000:72-74,
\* part_002:64-66); the other demos use the index as passed.
ClampIndex(d, i) == IF d \in PadDemos /\ i < 0 THEN 0 ELSE i

\* devices[i] exists.
InRange(i) == 0 <= i /\ i < Len(devices)

\* handles after the variable h has been assigned a handle in state v.
Hold(h, v) ==
    [x \in (DOMAIN handles) \cup {h} |-> IF x = h THEN v ELSE handles[x]]

\* "defer h.Release()": only the panicking demos defer their releases.
Defer(h) == IF demo \in PadDemos THEN deferred ELSE <<h>> \o deferred

\* cl.GetPlatforms and platforms[0].GetDevices, and the len(devices) == 0 check.
\* The panicking demos discard both errors: with no platform platforms[0]
\* panics, with no devices the check panics.
GetDevices ==
    /\ pc = "start"
    /\ \E ok \in ApiOutcomes :
          /\ devices' = IF ok THEN platform ELSE <<>>
          /\ failed' = IF ok THEN failed ELSE "GetDevices"
          /\ pc' = IF ok /\ Len(platform) > 0 THEN "select" ELSE ErrorPc(demo)
    /\ UNCHANGED <<demo, dispatchVars, platform, requested, deviceIndex, handles, releases,
                   deferred, dev, bufs,
                   kargs, idx, it, sum, st, now, rows, local,
                   size, global, enq, pending, lastRun, results, fault,
                   spanSum, slowLeft>>

\* devices[deviceIndex]: an index outside the slice is a Go run-time panic.
\* Vectors returns when the device lacks cl_khr_fp64.
SelectDevice ==
    /\ pc = "select"
    /\ LET i == ClampIndex(demo, deviceIndex)
       IN  /\ deviceIndex' = i
           /\ IF InRange(i)
              THEN /\ dev' = devices[i + 1]
                   /\ pc' = IF demo = "Vectors" /\ ~devices[i + 1].fp64
                            THEN "returned" ELSE "context"
              ELSE /\ dev' = dev
                   /\ pc' = "panicked"
    /\ UNCHANGED <<demo, dispatchVars, platform, requested, devices, resources, bufs, kargs,
                   idx, it, sum, st, now, rows, local,
                   size, global, enq, pending, lastRun, results, fault,
                   spanSum, slowLeft>>

\* cl.CreateContext; "context, _ :=" and "defer context.Release()" in the
\* panicking demos, Fatalf on error in the others.
CreateContext ==
    /\ pc = "context"
    /\ \E ok \in ApiOutcomes :
          /\ failed' = IF ok THEN failed ELSE "CreateContext"
          /\ IF ~ok /\ demo \in PadDemos
             THEN pc' = "fatal" /\ UNCHANGED <<handles, deferred>>
             ELSE /\ handles' = Hold("context", IF ok THEN "live" ELSE "nil")
                  /\ deferred' = Defer("context")
                  /\ pc' = "queue"
    /\ UNCHANGED <<demo, dispatchVars, hostEnv, releases, dev, bufs, kargs, idx, it, sum, st,
                   now, rows, local,
                   size, global, enq, pending, lastRun, results, fault,
                   spanSum, slowLeft>>

\* context.CreateCommandQueue; "queue, _ :=" and "defer queue.Release()" in
\* the panicking demos, Fatalf on error in the others.
CreateCommandQueue ==
    /\ pc = "queue"
    /\ IF handles["context"] = "nil"
       THEN \E o \in NilCallOutcomes :
               /\ UNCHANGED failed
               /\ IF o = "panics"
                  THEN pc' = "panicked" /\ UNCHANGED <<handles, deferred>>
                  ELSE /\ handles' = Hold("queue", "nil")
                       /\ deferred' = Defer("queue")
                       /\ pc' = "program"
       ELSE \E ok \in ApiOutcomes :
               /\ failed' = IF ok THEN failed ELSE "CreateCommandQueue"
               /\ IF ~ok /\ demo \in PadDemos
                  THEN pc' = "fatal" /\ UNCHANGED <<handles, deferred>>
                  ELSE /\ handles' = Hold("queue", IF ok THEN "live" ELSE "nil")
                       /\ deferred' = Defer("queue")
                       /\ pc' = "program"
    /\ UNCHANGED <<demo, dispatchVars, hostEnv, releases, dev, bufs, kargs, idx, it, sum, st,
                   now, rows, local,
                   size, global, enq, pending, lastRun, results, fault,
                   spanSum, slowLeft>>

\* context.CreateProgramWithSource; "program, _ :=" in the panicking demos,
\* Fatalf on error in the others.  The program is never released.
CreateProgramWithSource ==
    /\ pc = "program"
    /\ IF handles["context"] = "nil"
       THEN \E o \in NilCallOutcomes :
               /\ UNCHANGED failed
               /\ IF o = "panics"
                  THEN pc' = "panicked" /\ UNCHANGED handles
                  ELSE handles' = Hold("program", "nil") /\ pc' = "build"
       ELSE \E ok \in ApiOutcomes :
               /\ failed' = IF ok \/ failed # "none" THEN failed ELSE "CreateProgramWithSource"
               /\ IF ~ok /\ demo \in PadDemos
                  THEN pc' = "fatal" /\ UNCHANGED handles
                  ELSE /\ handles' = Hold("program", IF ok THEN "live" ELSE "nil")
                       /\ pc' = "build"
    /\ UNCHANGED <<demo, dispatchVars, hostEnv, releases, deferred, dev, bufs, kargs, idx, it,
                   sum, st, now, rows, local,
                   size, global, enq, pending, lastRun, results, fault,
                   spanSum, slowLeft>>

\* program.BuildProgram(nil, ""): every demo checks its error.  On a nil
\* program the call panics or returns an error, and both end in a panic.
BuildProgram ==
    /\ pc = "build"
    /\ IF handles["program"] = "nil"
       THEN pc' = "panicked" /\ UNCHANGED failed
       ELSE \E ok \in ApiOutcomes :
               /\ failed' = IF ok \/ failed # "none" THEN failed ELSE "BuildProgram"
               /\ pc' = IF ok THEN "kernel" ELSE ErrorPc(demo)
    /\ UNCHANGED <<demo, dispatchVars, hostEnv, handles, releases, deferred, dev, bufs, kargs, idx, it, sum, st,
                   now, rows, local,
                   size, global, enq, pending, lastRun, results, fault,
                   spanSum, slowLeft>>

\* program.CreateKernel: every demo checks its error; "defer kernel.Release()"
CreateKernel ==
    /\ pc = "kernel"
    /\ \E ok \in ApiOutcomes :
          /\ failed' = IF ok \/ failed # "none" THEN failed ELSE "CreateKernel"
          /\ IF ok
             THEN /\ handles' = Hold("kernel", "live")
                  /\ deferred' = Defer("kernel")
                  /\ pc' = "alloc"
             ELSE pc' = ErrorPc(demo) /\ UNCHANGED <<handles, deferred>>
    /\ UNCHANGED <<demo, dispatchVars, hostEnv, releases, dev, bufs, kargs, idx, it, sum, st,
                   now, rows, local,
                   size, global, enq, pending, lastRun, results, fault,
                   spanSum, slowLeft>>

\* context.CreateEmptyBuffer: the next buffer of the demo, uninitialised;
\* every demo checks its error; "defer buffer.Release()"
CreateEmptyBuffer ==
    /\ pc = "alloc"
    /\ \E ok \in ApiOutcomes :
          LET plan == BufferPlan(demo)
              b == plan[Len(bufs) + 1]
          IN  IF ok
              THEN /\ UNCHANGED failed
                   /\ bufs' = Append(bufs, [name |-> b.name, mode |-> b.mode,
                                            size |-> b.size, data |-> EmptyData])
                   /\ handles' = Hold(b.name, "live")
                   /\ deferred' = Defer(b.name)
                   /\ pc' = IF Len(bufs) + 1 = Len(plan) THEN "upload" ELSE "alloc"
              ELSE /\ failed' = IF failed # "none" THEN failed ELSE "CreateEmptyBuffer"
                   /\ pc' = ErrorPc(demo)
                   /\ UNCHANGED <<bufs, handles, deferred>>
    /\ UNCHANGED <<demo, dispatchVars, hostEnv, releases, dev, kargs, idx, it, sum, st, now,
                   rows, local,
                   size, global, enq, pending, lastRun, results, fault,
                   spanSum, slowLeft>>

\* The uploads of the demo that have not been made yet.
UploadsLeft ==
    SelectSeq(UploadPlan(demo), LAMBDA n : DOMAIN Buf(n).data = {})

\* queue.EnqueueWriteBuffer(buffer, true, ...): the blocking upload.  On a
\* nil queue the call panics or returns an error, and both end in a panic.
EnqueueWriteBuffer ==
    /\ pc = "upload"
    /\ IF handles["queue"] = "nil"
       THEN pc' = "panicked" /\ UNCHANGED bufs
       ELSE LET name == Head(UploadsLeft)
            IN  /\ bufs' = [bufs EXCEPT ![BufIndex(name)].data = HostData(demo, name)]
                /\ pc' = IF Len(UploadsLeft) = 1 THEN "bind" ELSE "upload"
    /\ UNCHANGED <<demo, dispatchVars, hostEnv, resources, dev, kargs, idx, it, sum, st, now, rows, local,
                   size, global, enq, pending, lastRun, results, fault,
                   spanSum, slowLeft>>

\* kernel.SetArgs(...)
SetArgs ==
    /\ pc = "bind"
    /\ kargs' = ArgPlan(demo)
    /\ pc' = "query"
    /\ UNCHANGED <<demo, dispatchVars, hostEnv, resources, dev, bufs, idx, it, sum, st, now, rows, local,
                   size, global, enq, pending, lastRun, results, fault,
                   spanSum, slowLeft>>

\* The capability queries between SetArgs and the first enqueue; the demos
\* with a single dispatch that is timed take st here.
QueryDevice ==
    /\ pc = "query"
    /\ local' = IF demo \in PadDemos THEN dev.kernelWG ELSE local
    /\ size' = IF demo \in PadDemos THEN dev.prefMult ELSE size
    /\ st' = IF demo \in {"SquareLocalSize", "MultiDim"} THEN now ELSE st
    /\ pc' = CASE demo \in PadDemos -> "pad"
               [] demo \in LoopDemos -> "loop"
               [] OTHER -> "enqueue"
    /\ UNCHANGED <<demo, dispatchVars, hostEnv, resources, dev, bufs, kargs, idx, it, sum, now, rows,
                   global, enq, pending, lastRun, results, fault,
                   spanSum, slowLeft>>

\* Step 6.1 of Structs and Vectors
PadGlobal ==
    /\ pc = "pad"
    /\ global' = AutoPad(ElemCount(demo), local)
    /\ st' = IF demo = "Structs" THEN now ELSE st
    /\ pc' = "enqueue"
    /\ UNCHANGED <<demo, dispatchVars, hostEnv, resources, dev, bufs, kargs, idx, it, sum, now, rows, local,
                   size, enq, pending, lastRun, results, fault,
                   spanSum, slowLeft>>

\* The head of "for _, localSize := range localSizes": leave the loop after
\* the last candidate, skip an infeasible one, or start the repetitions.
\* Benchmark resets sum and takes st before its check (benchmark.go:129-133),
\* BatchedSquare resets sum after it (part_002:319-322).
NextCandidate ==
    /\ pc = "loop"
    /\ IF idx > Len(localSizes)
       THEN /\ pc' = "download"
            /\ UNCHANGED <<idx, it, sum, st, spanSum>>
       ELSE LET L == localSizes[idx]
            IN  /\ st' = IF demo = "Benchmark" THEN now ELSE st
                /\ sum' = IF demo = "Benchmark" \/ ~Skips(demo, L) THEN 0 ELSE sum
                /\ IF Skips(demo, L)
                   THEN /\ idx' = idx + 1
                        /\ pc' = "loop"
                        /\ UNCHANGED <<it, spanSum>>
                   ELSE /\ it' = 0
                        /\ spanSum' = 0
                        /\ pc' = "iter"
                        /\ idx' = idx
    /\ UNCHANGED <<demo, dispatchVars, hostEnv, resources, dev, bufs, kargs, now, rows, local, size, global,
                   enq, pending, lastRun, results, fault, slowLeft>>

\* The head of "for it := 0; it < int(iterations); it++" while it < iterations;
\* BatchedSquare takes st at the top of every repetition (part_002:324).
NextIteration ==
    /\ pc = "iter"
    /\ it < Iterations
    /\ st' = IF demo = "BatchedSquare" THEN now ELSE st
    /\ pc' = "enqueue"
    /\ UNCHANGED <<demo, dispatchVars, hostEnv, resources, dev, bufs, kargs, idx, it, sum, now, rows, local,
                   size, global, enq, pending, lastRun, results, fault,
                   spanSum, slowLeft>>

\* After the last repetition: print the row with sum/iterations.
Report ==
    /\ pc = "iter"
    /\ it >= Iterations
    /\ rows' = Append(rows, [localSize |-> localSizes[idx],
                             mean |-> sum \div Iterations])
    /\ idx' = idx + 1
    /\ pc' = "loop"
    /\ UNCHANGED <<demo, dispatchVars, hostEnv, resources, dev, bufs, kargs, it, sum, st, now, local,
                   size, global, enq, pending, lastRun, results, fault,
                   spanSum, slowLeft>>

\* A driver that goes on after the enqueue without draining the queue.
EnqueueWithoutFinish ==
    /\ pc = "enqueue"
    /\ enq' = EnqueueGeometry
    /\ IF EnqueueValid(EnqueueGeometry)
       THEN pending' = TRUE /\ pc' = IF demo \in LoopDemos THEN "accum" ELSE "download"
       ELSE pending' = FALSE /\ pc' = ErrorPc(demo)
    /\ UNCHANGED <<demo, dispatchVars, hostEnv, resources, dev, bufs, kargs, idx, it, sum, st,
                   now, rows, local, size, global, lastRun, results, fault,
                   spanSum, slowLeft>>

\* queue.EnqueueNDRangeKernel(kernel, nil, global, local, nil): the runtime
\* takes the dispatch or returns an error, on which the demo panics or exits.
EnqueueNDRangeKernel ==
    /\ pc = "enqueue"
    /\ enq' = EnqueueGeometry
    /\ IF EnqueueValid(EnqueueGeometry)
       THEN pending' = TRUE /\ pc' = "finish"
       ELSE pending' = FALSE /\ pc' = ErrorPc(demo)
    /\ UNCHANGED <<demo, dispatchVars, hostEnv, resources, dev, bufs, kargs, idx, it, sum, st, now, rows, local,
                   size, global, lastRun, results, fault, spanSum, slowLeft>>

\* queue.Finish(): returns once the device has run the pending dispatch.
Finish ==
    /\ pc = "finish"
    /\ \E r \in PossibleRuns(enq), dur \in Durations,
          lands \in StoreOutcomes(Buf(kargs[OutArg(demo)]).mode) :
          /\ bufs' = IF lands THEN KernelEffect(demo, r) ELSE bufs
          /\ fault' = (fault \/ OutOfBounds(demo, r))
          /\ lastRun' = r
          /\ now' = now + dur
          /\ spanSum' = spanSum + dur
          /\ slowLeft' = IF dur > 1 THEN slowLeft - 1 ELSE slowLeft
    /\ pending' = FALSE
    /\ pc' = IF demo \in LoopDemos THEN "accum" ELSE "download"
    /\ UNCHANGED <<demo, dispatchVars, hostEnv, resources, dev, kargs, idx, it, sum, st, rows, local,
                   size, global, enq, results>>

\* sum += time.Since(st).Microseconds(), and the loop's it++
Accumulate ==
    /\ pc = "accum"
    /\ sum' = sum + (now - st)
    /\ it' = it + 1
    /\ pc' = "iter"
    /\ UNCHANGED <<demo, dispatchVars, hostEnv, resources, dev, bufs, kargs, idx, st, now, rows, local,
                   size, global, enq, pending, lastRun, results, fault,
                   spanSum, slowLeft>>

\* The two 32-bit words of the double 1.0 (0x3FF0000000000000), low word first.
DoubleWord(v, w) == IF w = 0 THEN 0 ELSE 1072693248

\* What EnqueueReadBuffer copies into results: every cell of the output
\* buffer; in Structs the first 512 bytes, read as 128 int32 (part_000:184-189).
Downloaded(d) ==
    LET data == Buf("output").data
    IN  IF d = "Structs"
        THEN [j \in {n \in 0 .. (StructCount \div 2 - 1) : (n \div 2) \in DOMAIN data}
                 |-> DoubleWord(data[j \div 2], j % 2)]
        ELSE data

\* queue.EnqueueReadBuffer(output, true, ...): the blocking download
EnqueueReadBuffer ==
    /\ pc = "download"
    /\ results' = Downloaded(demo)
    /\ pc' = "done"
    /\ UNCHANGED <<demo, dispatchVars, hostEnv, resources, dev, bufs, kargs, idx, it, sum, st, now, rows, local,
                   size, global, enq, pending, lastRun, fault, spanSum,
                   slowLeft>>

\* The number of deferred calls that release h.
DeferredCalls(h) == Cardinality({i \in DOMAIN deferred : deferred[i] = h})

\* The end of the demo function: after the last statement, or while a panic
\* unwinds, the deferred Release() calls run, last deferred first.  (After
\* logrus.Fatalf, which ends the process with os.Exit, none runs.)
RunDeferred ==
    /\ pc \in {"done", "panicked"}
    /\ releases' =
          [h \in (DOMAIN releases) \cup {deferred[i] : i \in DOMAIN deferred} |->
              (IF h \in DOMAIN releases THEN releases[h] ELSE 0) + DeferredCalls(h)]
    /\ deferred' = <<>>
    /\ pc' = IF pc = "done" THEN "returned" ELSE "crashed"
    /\ UNCHANGED <<demo, dispatchVars, hostEnv, handles, failed, dev, bufs, kargs, idx, it,
                   sum, st, now, rows, local, size, global, enq, pending, lastRun,
                   results, fault, spanSum, slowLeft>>

Next ==
    \/ GetDevices
    \/ SelectDevice
    \/ CreateContext
    \/ CreateCommandQueue
    \/ CreateProgramWithSource
    \/ BuildProgram
    \/ CreateKernel
    \/ CreateEmptyBuffer
    \/ EnqueueWriteBuffer
    \/ SetArgs
    \/ QueryDevice
    \/ PadGlobal
    \/ NextCandidate
    \/ NextIteration
    \/ Report
    \/ EnqueueNDRangeKernel
    \/ Finish
    \/ Accumulate
    \/ EnqueueReadBuffer
    \/ RunDeferred

Spec == Init /\ [][Next]_vars

-----------------------------------------------------------------------------
(* One dispatch, work-item by work-item.  Finish above takes a dispatch as  *)
(* one step; here the work-items of one dispatch run one at a time in any  *)
(* order, on small geometries, and every store is counted.                 *)

KernelDemos == {"Benchmark", "MultiDim", "BatchedSquare", "Vectors"}

\* The geometries followed work-item by work-item.
KernelGeometries(d) ==
    CASE d \in {"Benchmark", "MultiDim"} ->
           {[g |-> <<q[1], q[2]>>, l |-> <<1, 1>>] :
               q \in {x \in (1 .. MaxGeometry) \X (1 .. MaxGeometry) :
                         x[1] * x[2] <= MaxItems}}
      [] d = "BatchedSquare" ->
           {[g |-> <<q[1]>>, l |-> <<q[2]>>] :
               q \in {x \in (1 .. MaxGeometry) \X (1 .. MaxGeometry) :
                         x[1] * x[2] <= MaxItems}}
      [] d = "Vectors" ->
           {[g |-> <<n>>, l |-> <<1>>] : n \in 1 .. MaxGeometry}

\* The work-items of run r: <<col, row>> (get_global_id(0), get_global_id(1))
\* in the 2-D kernels, <<i>> in the 1-D kernels.
WorkItems(d, r) ==
    IF d \in {"Benchmark", "MultiDim"}
    THEN (0 .. (r.g[1] - 1)) \X (0 .. (r.g[2] - 1))
    ELSE {<<i>> : i \in 0 .. (r.g[1] - 1)}

\* The output indices work-item w of run r stores to.
ItemStores(d, r, w) ==
    CASE d \in {"Benchmark", "MultiDim"} -> {GridIndex(w[2], w[1], r.g[1])}
      [] d = "BatchedSquare" ->
           {BatchedIndex(w[1], n, r.l[1]) : n \in 0 .. (r.l[1] - 1)}
      [] d = "Vectors" ->
           IF w[1] < kargs[4]
           THEN {VectorsIndex(w[1], row) : row \in 0 .. 3}
           ELSE {}

\* The arguments are bound and one dispatch with a small geometry is running.
KernelInit ==
    /\ demo \in KernelDemos
    /\ lastRun \in KernelGeometries(demo)
    /\ enq = lastRun
    /\ pending = TRUE
    /\ pc = "running"
    /\ kargs = ArgPlan(demo)
    /\ items = {}
    /\ writes = [k \in {} |-> 0]
    /\ platform = <<>>
    /\ requested = 0
    /\ devices = <<>>
    /\ deviceIndex = 0
    /\ handles = [h \in {} |-> "nil"]
    /\ releases = [h \in {} |-> 0]
    /\ deferred = <<>>
    /\ failed = "none"
    /\ dev = NoDevice
    /\ bufs = <<>>
    /\ idx = 1
    /\ it = 0
    /\ sum = 0
    /\ st = 0
    /\ now = 0
    /\ rows = <<>>
    /\ local = 0
    /\ size = 0
    /\ global = 0
    /\ results = <<>>
    /\ fault = FALSE
    /\ spanSum = 0
    /\ slowLeft = 0

\* One more work-item runs to its end.
WorkItemRuns ==
    /\ pc = "running"
    /\ \E w \in WorkItems(demo, lastRun) \ items :
          LET stored == ItemStores(demo, lastRun, w)
          IN  /\ items' = items \cup {w}
              /\ writes' = [k \in (DOMAIN writes) \cup stored |->
                              (IF k \in DOMAIN writes THEN writes[k] ELSE 0)
                                + (IF k \in stored THEN 1 ELSE 0)]
    /\ UNCHANGED <<demo, hostEnv, resources, dev, pc, bufs, kargs, idx, it, sum,
                   st, now, rows, local, size, global, enq, pending, lastRun,
                   results, fault, spanSum, slowLeft>>

KernelNext == WorkItemRuns

KernelSpec == KernelInit /\ [][KernelNext]_vars

-----------------------------------------------------------------------------
(* The claims.                                                             *)

\* The padding step of Structs / Vectors has run.
Padded == demo \in PadDemos /\ global # 0

\* What padding n to the multiple m must give.
PadOK(n, m, g) == g % m = 0 /\ g >= n /\ g < n + m

\* C1, as stated: the padded global of Structs and Vectors is a multiple of
\* P, at least problemSize and less than problemSize + P, where P is the
\* kernel's preferred work-group-size multiple (the variable size).
C1_PaddedToPreferredMultiple ==
    Padded => PadOK(ElemCount(demo), size, global)

\* C1, amended: the padded global of Structs and Vectors is a multiple of the
\* kernel's work-group size (the variable local, kernel.WorkGroupSize), at
\* least problemSize and less than problemSize + local; the same arithmetic
\* gives, for every problem size n > 0 and multiple m > 0 within the bounds,
\* a multiple of m in [n, n + m).
C1_PaddedToWorkGroupSize ==
    Padded =>
        /\ PadOK(ElemCount(demo), local, global)
        /\ \A n \in 1 .. MaxProblemSize, m \in 1 .. MaxMultiple :
               PadOK(n, m, AutoPad(n, m))

\* C1, witness: the padding ran and had to add to the problem size.
C1_Witness == Padded /\ global > ElemCount(demo) /\ pc = "enqueue"

\* C2: at every EnqueueNDRangeKernel call that gives local sizes, every
\* global size is an exact multiple of its local size.
C2_GlobalMultipleOfLocal ==
    enq.l # <<>> => \A d \in 1 .. Len(enq.g) : enq.g[d] % enq.l[d] = 0

\* C2, witness: BatchedSquare has the largest candidate in flight, and (in
\* another run) Benchmark a 2-D geometry.
C2_Witness ==
    /\ demo = "BatchedSquare"
    /\ pending
    /\ enq = [g |-> <<BatchedElemCount \div 1024>>, l |-> <<1024>>]

\* C3, as stated: BatchedSquare hands a local size L to the enqueue only if
\* L <= maxWorkGroupSize and L <= maxWorkItemSizes[0]; a candidate breaking
\* either limit is skipped, never dispatched.
C3_BatchedDispatchWithinLimits ==
    (demo = "BatchedSquare" /\ enq # None) =>
        /\ enq.l[1] <= dev.maxWG
        /\ enq.l[1] <= dev.wi[1]

\* C4: Benchmark hands the local geometry [L, L] to the enqueue only if
\* L*L <= maxWorkGroupSize, L <= maxWorkItemSizes[0] and
\* L <= maxWorkItemSizes[1]; every other candidate is skipped: it gets no
\* repetition, no dispatch and no row.
C4_BenchmarkDispatchOnlyFeasible ==
    LET ok(L) == L * L <= dev.maxWG /\ L <= dev.wi[1] /\ L <= dev.wi[2]
    IN  demo = "Benchmark" =>
            /\ enq # None => enq.l = <<enq.l[1], enq.l[1]>> /\ ok(enq.l[1])
            /\ pc \in {"iter", "enqueue", "finish", "accum"} => ok(localSizes[idx])
            /\ \A i \in 1 .. Len(rows) : ok(rows[i].localSize)

\* C4, witness: a Benchmark run that dispatched some candidates and skipped
\* others has ended.
C4_Witness ==
    /\ demo = "Benchmark"
    /\ pc = "done"
    /\ Len(rows) > 1
    /\ Len(rows) < Len(localSizes)

\* The benchmark loop of Benchmark / BatchedSquare is running.
InLoop == demo \in LoopDemos /\ pc \in {"loop", "iter", "enqueue", "finish", "accum"}

\* C5, as stated: for each feasible candidate of Benchmark and BatchedSquare
\* exactly 16 repetitions run, every repetition is measured from its own
\* enqueue to its own drain (so the accumulator is the sum of the
\* repetitions' spans), and the row reports that sum divided by 16.
C5_MeanOfOwnSpans ==
    demo \in LoopDemos =>
        /\ pc = "iter" => sum = spanSum
        /\ (Len(rows) > 0 /\ pc \in {"loop", "download", "done"}) =>
               /\ it = Iterations
               /\ rows[Len(rows)].mean = spanSum \div Iterations

\* A candidate the device limits of the spec (4.1) allow.
WithinLimits(d, L) ==
    IF d = "Benchmark"
    THEN L * L <= dev.maxWG /\ L <= dev.wi[1] /\ L <= dev.wi[2]
    ELSE L <= dev.maxWG /\ L <= dev.wi[1]

RowSizes == [i \in 1 .. Len(rows) |-> rows[i].localSize]

FeasibleCandidates == SelectSeq(localSizes, LAMBDA L : WithinLimits(demo, L))

\* C6, as stated: the rows of Benchmark and BatchedSquare are the feasible
\* candidates in the order of the candidate list (a prefix of them while the
\* loop runs, all of them once it has ended); an infeasible candidate causes
\* no dispatch, no row and no error.
C6_RowsAreFeasibleInOrder ==
    demo \in LoopDemos =>
        /\ Len(RowSizes) <= Len(FeasibleCandidates)
        /\ RowSizes = SubSeq(FeasibleCandidates, 1, Len(RowSizes))
        /\ pc \in {"download", "done"} => RowSizes = FeasibleCandidates
        /\ enq # None => WithinLimits(demo, enq.l[1])
        /\ pc = "panicked" => WithinLimits(demo, localSizes[idx])

\* C7: while the benchmark loop of Benchmark / BatchedSquare runs, no step
\* changes the kernel's argument binding, allocates a buffer or changes a
\* buffer other than the output buffer, and of the output buffer only the
\* contents change: the input stays as uploaded.
C7_LoopFrame ==
    [][InLoop =>
          /\ kargs' = kargs
          /\ Len(bufs') = Len(bufs)
          /\ \A i \in 1 .. Len(bufs) :
                /\ bufs'[i].name = bufs[i].name
                /\ bufs'[i].mode = bufs[i].mode
                /\ bufs'[i].size = bufs[i].size
                /\ bufs[i].name # "output" => bufs'[i].data = bufs[i].data]_vars

\* C7, witness: in the second repetition of a later candidate, after a
\* dispatch has written the output buffer, the input is still the upload.
C7_Witness ==
    /\ InLoop
    /\ idx > 1
    /\ it > 0
    /\ pc = "accum"
    /\ DOMAIN Buf("output").data # {}
    /\ Buf("input").data = HostData(demo, "input")

\* C8, as stated: once BatchedSquare has run a dispatch, whatever the local
\* size, the output buffer holds output[k] = input[k] * input[k] at every
\* k < elemCount, and the kernel touched no index >= elemCount.
C8_BatchedOutputIsSquares ==
    (demo = "BatchedSquare" /\ lastRun # None) =>
        /\ ~fault
        /\ \A k \in Cells(demo, BatchedElemCount) :
              /\ k \in DOMAIN Buf("output").data
              /\ Buf("output").data[k] = Sq(Buf("input").data[k])

\* C9, as stated: in SquareLocalSize, whatever local size the device chooses,
\* the kernel accesses no index outside [0, 64) and the download yields 64
\* elements with results[k] = k*k.
C9_SquareLocalRoundTrip ==
    demo = "SquareLocalSize" =>
        /\ ~fault
        /\ pc = "done" =>
              /\ DOMAIN results = 0 .. (SquareLocalElemCount - 1)
              /\ \A k \in DOMAIN results : results[k] = k * k

\* Row row of matrix i times vector i, row-major, on the host data.
RowTimesVector(i, row) ==
    LET m == HostData("Vectors", "inputMatrix2")
        v == HostData("Vectors", "inputVector1")
    IN  m[16 * i + 4 * row] * v[4 * i]
          + m[16 * i + 4 * row + 1] * v[4 * i + 1]
          + m[16 * i + 4 * row + 2] * v[4 * i + 2]
          + m[16 * i + 4 * row + 3] * v[4 * i + 3]

\* C10, as stated: Vectors dispatches with global size 16 and local size 4,
\* and after the download of 256 values results[4i+row] is row row of
\* matrix i times vector i, for every i in 0..63.
C10_VectorsProduct ==
    (demo = "Vectors" /\ pc = "done") =>
        /\ enq = [g |-> <<16>>, l |-> <<4>>]
        /\ DOMAIN results = 0 .. (4 * VectorCount - 1)
        /\ \A i \in 0 .. (VectorCount - 1), row \in 0 .. 3 :
              results[4 * i + row] = RowTimesVector(i, row)

FailedBeforeContext ==
    /\ pc \in {"start", "select", "panicked", "crashed", "fatal"}
    /\ dev = NoDevice
    /\ DOMAIN handles = {}
    /\ bufs = <<>>
    /\ enq = None

\* C12, as stated: with a device index outside [0, number of enumerated
\* devices), negative ones included, every demo fails before it creates a
\* context: no device is selected, nothing is created, nothing dispatched.
C12_OutOfRangeIndexFails ==
    (requested < 0 \/ requested >= Len(platform)) => FailedBeforeContext

\* C12, amended: an index >= the number of enumerated devices fails every
\* demo before it creates a context, and so does a negative index in the
\* demos other than Structs and Vectors; Structs and Vectors replace a
\* negative index by 0 and select device 0.
C12_IndexBeyondDevicesFails ==
    /\ requested >= Len(platform) => FailedBeforeContext
    /\ (requested < 0 /\ demo \notin PadDemos) => FailedBeforeContext
    /\ (requested < 0 /\ demo \in PadDemos /\ ~FailedBeforeContext) =>
          /\ deviceIndex = 0
          /\ dev = platform[1]

\* C12, witness: Vectors was started with an index past the last of two
\* devices and has ended in the index panic.
C12_Witness ==
    /\ demo = "Vectors"
    /\ Len(devices) = 2
    /\ requested = 2
    /\ pc = "crashed"
    /\ FailedBeforeContext

\* The demo has ended without reaching its last statement.
Aborted == pc \in {"panicked", "crashed", "fatal"}

\* C13, as stated: once enumeration, context creation, queue creation,
\* program creation or the build has failed the demo has aborted: it is at
\* no later step, holding the failed (nil) context, queue or program.
C13_ConstructionFailureAborts ==
    failed \in {"GetDevices", "CreateContext", "CreateCommandQueue",
                "CreateProgramWithSource", "BuildProgram"} => Aborted

\* C14, as stated: when the enqueue of one benchmark dispatch fails, that
\* step changes no buffer and releases nothing, and the driver goes on with
\* its loop, where the remaining candidates can still be dispatched.
C14_EnqueueFailureIsRecoverable ==
    [][(demo \in LoopDemos /\ pc = "enqueue" /\ ~EnqueueValid(EnqueueGeometry)) =>
          /\ bufs' = bufs
          /\ handles' = handles
          /\ releases' = releases
          /\ ~pending'
          /\ pc' \in {"loop", "iter"}]_vars

\* The demo function has been left: by return, by a panic that has unwound,
\* or by logrus.Fatalf.
Exited == pc \in {"returned", "crashed", "fatal"}

\* The context, the queue and the buffers the demo acquired successfully.
Acquired ==
    {h \in DOMAIN handles :
        handles[h] = "live" /\ h \notin {"program", "kernel"}}

\* C15, as stated: on every exit path every context, queue and buffer that
\* was acquired has been released exactly once, and nothing is released
\* while the demo still runs (so nothing is used after its release).
C15_ReleasedExactlyOnce ==
    /\ Exited =>
          \A h \in Acquired : h \in DOMAIN releases /\ releases[h] = 1
    /\ ~Exited =>
          \A h \in Acquired : h \notin DOMAIN releases

\* C16, as stated: in Structs and Vectors the global size handed to
\* EnqueueNDRangeKernel is the padded global of the padding step.
C16_EnqueuesPaddedGlobal ==
    (demo \in PadDemos /\ enq # None) => enq.g = <<global>>

\* A dispatch of the Vectors kernel with the global ids 0 .. MaxGlobalId.
WideRun == [g |-> <<MaxGlobalId + 1>>, l |-> <<1>>]

\* C17, as stated: with the arguments Vectors binds, the guard of the kernel
\* lets no global id i >= 64 through, so for every global id all accesses
\* stay within input1[0..255], input2[0..1023] and output[0..255].
C17_VectorsGuardsGlobalId ==
    (demo = "Vectors" /\ kargs # <<>>) =>
        /\ \A i \in VectorsItems(WideRun) : i < VectorCount
        /\ ~OutOfBounds("Vectors", WideRun)

\* C18, as stated: Vectors (local size [4]) and MultiDim (local sizes [1,1])
\* call the enqueue only on a device where the product of the local sizes is
\* <= maxWorkGroupSize and every local size is <= its maxWorkItemSizes entry.
C18_FixedLocalSizeWithinLimits ==
    (demo \in {"Vectors", "MultiDim"} /\ enq # None) =>
        /\ Prod(enq.l) <= dev.maxWG
        /\ \A d \in 1 .. Len(enq.l) : enq.l[d] <= dev.wi[d]

\* The number of output cells of run r: elems*elems, elemCount, 4 per vector.
OutputCells(d, r) ==
    CASE d \in {"Benchmark", "MultiDim"} -> r.g[1] * r.g[2]
      [] d = "BatchedSquare" -> r.g[1] * r.l[1]
      [] d = "Vectors" -> 4 * r.g[1]

\* C19: within one dispatch, in whatever order its work-items run, no output
\* index is stored to by two work-items, every store goes to an index of the
\* output, and once all work-items have run every index has been written.
C19_NoTwoWorkItemsStoreSameIndex ==
    pc = "running" =>
        /\ \A k \in DOMAIN writes :
              /\ writes[k] = 1
              /\ k \in 0 .. (OutputCells(demo, lastRun) - 1)
        /\ items = WorkItems(demo, lastRun) =>
              DOMAIN writes = 0 .. (OutputCells(demo, lastRun) - 1)

\* C19, witness: all 16 work-items of the 4 x 4 dispatch of MultiDim have run.
C19_Witness ==
    /\ pc = "running"
    /\ demo = "MultiDim"
    /\ lastRun.g = <<MultiDimElems, MultiDimElems>>
    /\ items = WorkItems(demo, lastRun)
    /\ Cardinality(DOMAIN writes) = MultiDimElems * MultiDimElems

\* C20, as stated: whenever a dispatch has been accepted, the buffer bound
\* to the kernel's output parameter was allocated WriteOnly or ReadWrite,
\* and no buffer allocated ReadOnly is the one the kernel stores to.
C20_WrittenBufferIsWritable ==
    (pending \/ lastRun # None) =>
        /\ Buf(kargs[OutArg(demo)]).mode \in {"WriteOnly", "ReadWrite"}
        /\ \A i \in 1 .. Len(bufs) :
              bufs[i].mode = "ReadOnly" => bufs[i].name # kargs[OutArg(demo)]

\* The demos whose kernel source computes with double: vectorsSrc (double*
\* parameters and locals) and printRayStructSrc (double4 fields, double* output).
DoubleKernels == {"Vectors", "Structs"}

\* C21, as stated: once Vectors or Structs has selected a device whose
\* extensions lack cl_khr_fp64 it has returned, and it holds no context or
\* other object, has allocated no buffer and has enqueued no dispatch.
C21_NoDoubleKernelWithoutFp64 ==
    (demo \in DoubleKernels /\ dev # NoDevice /\ ~dev.fp64) =>
        /\ pc = "returned"
        /\ DOMAIN handles = {}
        /\ bufs = <<>>
        /\ enq = None
        /\ ~pending
        /\ lastRun = None

=============================================================================
